---- MODULE Spec2Model ----
(***************************************************************************)
(* A model of the DNS message codec of src/src/main.rs: the query builder  *)
(* (build_query, encode_dns_name, DNSHeader::to_bytes,                     *)
(* DNSQuestion::to_bytes) and the message decoder (DNSPacket::from_buffer, *)
(* DNSHeader::from_buffer, DNSQuestion::from_buffer,                       *)
(* DNSRecord::from_buffer, decode_name).                                   *)
(*                                                                         *)
(* A byte is a number in 0..255, a byte string (Vec<u8>, VecDeque<u8>,     *)
(* String as its UTF-8 bytes) is a sequence of bytes.  A Rust panic        *)
(* (unwrap on None, drain out of range, expect on Err, arithmetic          *)
(* overflow with overflow checks on) ends the decode in pc = "panic".      *)
(***************************************************************************)
EXTENDS Integers, Sequences, FiniteSets, TLC

VARIABLES
    overflow_checks, \* build profile: TRUE = `+=` panics on overflow (debug), FALSE = wraps (release)
    domain_name,     \* build_query's domain_name argument (UTF-8 bytes)
    record_type,     \* build_query's record_type argument
    query,           \* the bytes build_query returned (<<>>: not called yet)
    truncated,       \* the buffer is a proper prefix of the well-formed message the peer sent
    original,        \* the Vec<u8> handed to DNSPacket::from_buffer
    taken,           \* number of bytes removed from the front of from_buffer's VecDeque
    idx,             \* from_buffer's cursor (u16)
    decoded_names,   \* from_buffer's compression table: offset -> name
    header,          \* the decoded DNSHeader
    questions,       \* Vec<DNSQuestion>
    answers,         \* Vec<DNSRecord>
    authorities,     \* Vec<DNSRecord>
    additionals,     \* Vec<DNSRecord>
    name_idx,        \* decode_name's name_idx of the name decoded last
    name,            \* the name decode_name returned last
    packet,          \* the DNSPacket from_buffer returned (a sequence of 0 or 1 packets)
    panic,           \* the panic that ended the decode ("" = none)
    decodes,         \* number of from_buffer calls so far
    pc               \* position of the program

vars == <<overflow_checks, domain_name, record_type, query, truncated, original,
          taken, idx, decoded_names, header, questions, answers, authorities,
          additionals, name_idx, name, packet, panic, decodes, pc>>

(***************************************************************************)
(* Bounds of the model.                                                    *)
(***************************************************************************)
\* largest number of labels of a generated domain name
MaxLabels == 2
\* number of from_buffer calls in one run
MaxDecodes == 2

(***************************************************************************)
(* Integer conversions.                                                    *)
(***************************************************************************)
\* a byte-order slip: u16::to_le_bytes
to_le_bytes(x) == <<x % 256, (x \div 256) % 256>>

\* u16::to_be_bytes
to_be_bytes(x) == <<(x \div 256) % 256, x % 256>>

\* u16::from_be_bytes([hi, lo])
from_be_bytes(hi, lo) == hi * 256 + lo

\* u32::from_be_bytes([a, b, c, d])
from_be_bytes32(a, b, c, d) == ((a * 256 + b) * 256 + c) * 256 + d

\* byte & 0b11000000 == 0b11000000: bits 7 and 6 both set
is_compressed(byte) == (byte \div 128) % 2 = 1 /\ (byte \div 64) % 2 = 1

\* usize as u8
as_u8(n) == n % 256

(***************************************************************************)
(* Strings.                                                                *)
(***************************************************************************)
Dot == 46

\* the sequence s without its first n elements
Drop(s, n) == SubSeq(s, n + 1, Len(s))

\* position of the first '.' in s, Len(s) + 1 if none
FindDot(s) ==
    LET dots == {i \in 1..Len(s) : s[i] = Dot} IN
    IF dots = {} THEN Len(s) + 1
    ELSE CHOOSE i \in dots : \A j \in dots : i <= j

\* name.split('.'): the labels between the dots; "" splits into one empty label
RECURSIVE split(_)
split(s) ==
    LET d == FindDot(s) IN
    IF d > Len(s) THEN <<s>>
    ELSE <<SubSeq(s, 1, d - 1)>> \o split(Drop(s, d))

\* name_parts.join(".")
RECURSIVE join(_)
join(parts) ==
    IF parts = <<>> THEN <<>>
    ELSE IF Len(parts) = 1 THEN parts[1]
    ELSE parts[1] \o <<Dot>> \o join(Tail(parts))

\* a UTF-8 continuation byte, 0x80..0xBF
IsCont(b) == b >= 128 /\ b <= 191

\* the length of the UTF-8 sequence that lead byte b opens, 0 if b opens none
Utf8Width(b) ==
    IF b <= 127 THEN 1
    ELSE IF b >= 194 /\ b <= 223 THEN 2
    ELSE IF b >= 224 /\ b <= 239 THEN 3
    ELSE IF b >= 240 /\ b <= 244 THEN 4
    ELSE 0

\* the range of the byte that follows lead byte b (no overlong forms, no
\* surrogates, nothing above U+10FFFF)
Utf8Second(b, c) ==
    IF b = 224 THEN c >= 160 /\ c <= 191
    ELSE IF b = 237 THEN c >= 128 /\ c <= 159
    ELSE IF b = 240 THEN c >= 144 /\ c <= 191
    ELSE IF b = 244 THEN c >= 128 /\ c <= 143
    ELSE IsCont(c)

\* String::from_utf8(part).is_ok(): every byte is a lead byte followed by its
\* continuation bytes, or a continuation byte of the lead byte before it
valid_utf8(s) ==
    \A i \in 1..Len(s) :
        IF IsCont(s[i])
        THEN \E k \in 1..3 :
                /\ i - k >= 1
                /\ Utf8Width(s[i - k]) > k
                /\ \A m \in 1..(k - 1) : IsCont(s[i - m])
        ELSE LET w == Utf8Width(s[i]) IN
             /\ w >= 1
             /\ i + w - 1 <= Len(s)
             /\ \A m \in 1..(w - 1) : IsCont(s[i + m])
             /\ w >= 2 => Utf8Second(s[i], s[i + 1])

(***************************************************************************)
(* The encoder.                                                            *)
(***************************************************************************)
\* the loop of encode_dns_name: per part, part.len() as u8, then the part's bytes
RECURSIVE encode_parts(_)
encode_parts(parts) ==
    IF parts = <<>> THEN <<>>
    ELSE <<as_u8(Len(Head(parts)))>> \o Head(parts) \o encode_parts(Tail(parts))

\* a slip: the terminating 0 byte is not pushed
encode_dns_name_unterminated(n) == encode_parts(split(n))

encode_dns_name(n) == encode_parts(split(n)) \o <<0>>

DNSHeader_to_bytes(h) ==
    to_be_bytes(h.id) \o to_be_bytes(h.flags) \o to_be_bytes(h.num_questions)
    \o to_be_bytes(h.num_answers) \o to_be_bytes(h.num_authorities)
    \o to_be_bytes(h.num_additionals)

DNSQuestion_to_bytes(q) ==
    encode_dns_name(q.name) \o to_be_bytes(q.type_) \o to_be_bytes(q.class)

\* 1 << 8
recursion_desired == 256

\* build_query, with the random id drawn by the caller
build_query(dn, rt, id) ==
    LET h == [id |-> id, flags |-> recursion_desired, num_questions |-> 1,
              num_answers |-> 0, num_authorities |-> 0, num_additionals |-> 0]
        q == [name |-> dn, type_ |-> rt, class |-> 1]
    IN DNSHeader_to_bytes(h) \o DNSQuestion_to_bytes(q)

(***************************************************************************)
(* The decoder.  Each operator returns the state the function leaves:      *)
(* panic ("" when it returned normally), the buffer, the cursor, and what  *)
(* it decoded.                                                             *)
(***************************************************************************)
\* `*idx += n` on a u16 overflows
Overflows(i, n) == i + n > 65535

\* a slip: the cursor also counts a byte that was not taken
AddU16_one_more(i, n) == (i + n + 1) % 65536

\* `*idx += n` on a u16, wrapping (overflow checks off)
AddU16(i, n) == (i + n) % 65536

NoHeader == [id |-> 0, flags |-> 0, num_questions |-> 0, num_answers |-> 0,
             num_authorities |-> 0, num_additionals |-> 0]

\* HashMap::new()
EmptyMap == [k \in {} |-> <<>>]

\* a slip: the name is registered under the offset after its length byte
insert_at_next(m, k, v) ==
    [x \in DOMAIN m \cup {k + 1} |-> IF x = k + 1 THEN v ELSE m[x]]

\* decoded_names.insert(k, v)
insert(m, k, v) == [x \in DOMAIN m \cup {k} |-> IF x = k THEN v ELSE m[x]]

DNSHeader_from_buffer(buffer, i, chk) ==
    IF Len(buffer) < 12
    THEN [panic |-> "drain_out_of_range", buffer |-> buffer, idx |-> i, header |-> NoHeader]
    ELSE IF chk /\ Overflows(i, 12)
    THEN [panic |-> "add_overflow", buffer |-> Drop(buffer, 12), idx |-> i,
          header |-> NoHeader]
    ELSE [panic |-> "", buffer |-> Drop(buffer, 12), idx |-> AddU16(i, 12),
          header |-> [id |-> from_be_bytes(buffer[1], buffer[2]),
                      flags |-> from_be_bytes(buffer[3], buffer[4]),
                      num_questions |-> from_be_bytes(buffer[5], buffer[6]),
                      num_answers |-> from_be_bytes(buffer[7], buffer[8]),
                      num_authorities |-> from_be_bytes(buffer[9], buffer[10]),
                      num_additionals |-> from_be_bytes(buffer[11], buffer[12])]]

NameResult(p, buffer, i, n, t) ==
    [panic |-> p, buffer |-> buffer, idx |-> i, name |-> n, decoded_names |-> t]

\* the loop of decode_name, entered with the length byte len already read
RECURSIVE decode_labels(_, _, _, _, _, _, _)
decode_labels(buffer, i, len, name_parts, start, t, chk) ==
    IF len > Len(buffer)
    THEN NameResult("drain_out_of_range", buffer, i, <<>>, t)
    ELSE LET part == SubSeq(buffer, 1, len)
             rest == Drop(buffer, len)
             parts == Append(name_parts, part)
         IN
         IF ~valid_utf8(part)
         THEN NameResult("invalid_utf8", rest, i, <<>>, t)
         ELSE IF chk /\ Overflows(i, len)
         THEN NameResult("add_overflow", rest, i, <<>>, t)
         ELSE IF rest = <<>>
         THEN NameResult("unwrap_none", rest, AddU16(i, len), <<>>, t)
         ELSE IF chk /\ Overflows(AddU16(i, len), 1)
         THEN NameResult("add_overflow", Tail(rest), AddU16(i, len), <<>>, t)
         ELSE IF Head(rest) = 0
         THEN NameResult("", Tail(rest), AddU16(AddU16(i, len), 1), join(parts),
                         insert(t, start, join(parts)))
         ELSE decode_labels(Tail(rest), AddU16(AddU16(i, len), 1), Head(rest),
                            parts, start, t, chk)

decode_name(buffer, i, t, chk) ==
    IF buffer = <<>>
    THEN NameResult("unwrap_none", buffer, i, <<>>, t)
    ELSE IF chk /\ Overflows(i, 1)
    THEN NameResult("add_overflow", Tail(buffer), i, <<>>, t)
    ELSE LET len == Head(buffer)
             i1 == AddU16(i, 1)
         IN
         IF is_compressed(len)
         THEN IF Len(buffer) < 2
              THEN NameResult("unwrap_none", Tail(buffer), i1, <<>>, t)
              ELSE IF chk /\ Overflows(i1, 1)
              THEN NameResult("add_overflow", Drop(buffer, 2), i1, <<>>, t)
              ELSE LET pointer == from_be_bytes(len % 64, buffer[2]) IN
                   IF pointer \notin DOMAIN t
                   THEN NameResult("unwrap_none", Drop(buffer, 2), AddU16(i1, 1), <<>>, t)
                   ELSE NameResult("", Drop(buffer, 2), AddU16(i1, 1), t[pointer], t)
         ELSE decode_labels(Tail(buffer), i1, len, <<>>, i, t, chk)

\* DNSQuestion::from_buffer after its decode_name call
question_fields(buffer, i, n, chk) ==
    IF Len(buffer) < 4
    THEN [panic |-> "drain_out_of_range", buffer |-> buffer, idx |-> i, item |-> <<>>]
    ELSE IF chk /\ Overflows(i, 4)
    THEN [panic |-> "add_overflow", buffer |-> Drop(buffer, 4), idx |-> i, item |-> <<>>]
    ELSE [panic |-> "", buffer |-> Drop(buffer, 4), idx |-> AddU16(i, 4),
          item |-> <<[name |-> n,
                      type_ |-> from_be_bytes(buffer[1], buffer[2]),
                      class |-> from_be_bytes(buffer[3], buffer[4])]>>]

\* DNSRecord::from_buffer after its decode_name call
record_fields(buffer, i, n, chk) ==
    IF Len(buffer) < 10
    THEN [panic |-> "unwrap_none", buffer |-> <<>>, idx |-> i, item |-> <<>>]
    ELSE LET data_len == from_be_bytes(buffer[9], buffer[10])
             rest == Drop(buffer, 10)
         IN
         IF chk /\ Overflows(i, 10)
         THEN [panic |-> "add_overflow", buffer |-> rest, idx |-> i, item |-> <<>>]
         ELSE IF data_len > Len(rest)
         THEN [panic |-> "drain_out_of_range", buffer |-> rest, idx |-> AddU16(i, 10),
               item |-> <<>>]
         ELSE IF chk /\ Overflows(AddU16(i, 10), data_len)
         THEN [panic |-> "add_overflow", buffer |-> Drop(rest, data_len),
               idx |-> AddU16(i, 10), item |-> <<>>]
         ELSE [panic |-> "", buffer |-> Drop(rest, data_len),
               idx |-> AddU16(AddU16(i, 10), data_len),
               item |-> <<[name |-> n,
                           type_ |-> from_be_bytes(buffer[1], buffer[2]),
                           class |-> from_be_bytes(buffer[3], buffer[4]),
                           ttl |-> from_be_bytes32(buffer[5], buffer[6], buffer[7], buffer[8]),
                           data |-> SubSeq(rest, 1, data_len)]>>]

\* the for loop of DNSPacket::from_buffer that runs next
Section(h, qs, an, ns, ar) ==
    IF Len(qs) < h.num_questions THEN "questions"
    ELSE IF Len(an) < h.num_answers THEN "answers"
    ELSE IF Len(ns) < h.num_authorities THEN "authorities"
    ELSE IF Len(ar) < h.num_additionals THEN "additionals"
    ELSE "none"

(***************************************************************************)
(* Inputs: the domain names and record types handed to build_query, and    *)
(* the messages a peer sends back.                                         *)
(***************************************************************************)
\* let mut buffer = [0u8; 1024]: the size of main's receive buffer
MaxBuffer == 1024

Min(a, b) == IF a <= b THEN a ELSE b

\* n bytes b
Rep(n, b) == [i \in 1..n |-> b]

\* lengths of the generated labels: empty, shortest, longest valid, too long,
\* one with both top bits set, one whose length does not fit a byte
LabelLens == {0, 1, 63, 64, 192, 256}

Labels == {Rep(n, 97) : n \in LabelLens}

LabelA == <<97>>
LabelB == <<98>>
LabelC == <<99>>

\* names of up to MaxLabels labels: a generated label at one position, "a" at the others
LabelSeqs ==
    UNION {{[i \in 1..k |-> IF i = p THEN l ELSE LabelA] : p \in 1..k, l \in Labels} :
             k \in 1..MaxLabels}

\* "www.example.com"
WwwExampleCom == <<119, 119, 119, 46, 101, 120, 97, 109, 112, 108, 101, 46, 99, 111, 109>>

\* "Ab.cAf\u{e9}": mixed case and a two-byte UTF-8 character
MixedName == <<65, 98, 46, 99, 65, 102, 195, 169>>

Names == {join(ls) : ls \in LabelSeqs} \cup {WwwExampleCom, MixedName}

Types == {1, 65535}

\* rand::thread_rng().gen_range(0..65535) draws from 0..65534
Ids == {4660, 65534}

\* a response header: QR, RD and RA set
Hdr(qd, an, ns, ar) ==
    DNSHeader_to_bytes([id |-> 4660, flags |-> 33152, num_questions |-> qd,
                        num_answers |-> an, num_authorities |-> ns,
                        num_additionals |-> ar])

\* a name as literal labels and the terminating 0
Lit(ls) == encode_parts(ls) \o <<0>>

\* a compression pointer to offset off
Ptr(off) == <<192 + off \div 256, off % 256>>

\* a question: name, type, class IN
Q(n, t) == n \o to_be_bytes(t) \o to_be_bytes(1)

\* a resource record: name, type, class IN, ttl, rdlength, rdata
RR(n, t, ttl, data) ==
    n \o to_be_bytes(t) \o to_be_bytes(1) \o to_be_bytes(ttl \div 65536)
    \o to_be_bytes(ttl % 65536) \o to_be_bytes(Len(data)) \o data

Addr == <<93, 184, 216, 34>>

\* question "a.b" at offset 12; the answer's name is a pointer to it
MsgCompressed == Hdr(1, 1, 0, 0) \o Q(Lit(<<LabelA, LabelB>>), 1) \o RR(Ptr(12), 1, 300, Addr)

\* the only name is a pointer
MsgDangling == Hdr(1, 0, 0, 0) \o Q(Ptr(12), 1)

\* question "a" at offset 12; the answer's name points into the middle of the question
MsgDanglingLater == Hdr(1, 1, 0, 0) \o Q(Lit(<<LabelA>>), 1) \o RR(Ptr(14), 1, 300, Addr)

\* question "b" at offset 12; the answer's name is the label "a" followed by a pointer to it
MsgPtrAfterLabels ==
    Hdr(1, 1, 0, 0) \o Q(Lit(<<LabelB>>), 1) \o RR(<<1, 97>> \o Ptr(12), 1, 300, Addr)

\* the same with records long enough to hold a 192-byte label after the answer's "a"
MsgPtrAfterLabelsLong ==
    Hdr(1, 1, 1, 0) \o Q(Lit(<<LabelB>>), 1)
    \o RR(<<1, 97>> \o Ptr(12), 1, 0, Rep(127, 0))
    \o RR(Lit(<<LabelB>>), 1, 0, Rep(64, 0))

\* question "a" at 12, first answer (at 19) a pointer to 12, second answer a pointer to 19
MsgChain ==
    Hdr(1, 2, 0, 0) \o Q(Lit(<<LabelA>>), 1) \o RR(Ptr(12), 1, 300, <<>>)
    \o RR(Ptr(19), 1, 300, Addr)

\* a question for the root name
MsgRoot == Hdr(1, 0, 0, 0) \o Q(<<0>>, 1)

\* a question for the root name and an answer owned by "a"
MsgRootRec == Hdr(1, 1, 0, 0) \o Q(<<0>>, 2) \o RR(Lit(<<LabelA>>), 2, 300, Lit(<<LabelC>>))

\* one item in every section
MsgSections ==
    Hdr(1, 1, 1, 1) \o Q(Lit(<<LabelA, LabelB>>), 1) \o RR(Ptr(12), 1, 300, Addr)
    \o RR(Lit(<<LabelC>>), 2, 86400, <<>>) \o RR(Ptr(12), 16, 70000, <<1, 120>>)

\* a header and nothing else
MsgEmpty == Hdr(0, 0, 0, 0)

\* a label that is not UTF-8
MsgNotUtf8 == Hdr(1, 0, 0, 0) \o Q(<<2, 195, 40, 0>>, 1)

\* one answer that fills main's receive buffer: 12 + 3 + 10 + 999 = 1024 bytes
MsgFull == Hdr(0, 1, 0, 0) \o RR(Lit(<<LabelA>>), 16, 0, Rep(MaxBuffer - 25, 0))

\* one answer of 1049 bytes, more than main's receive buffer holds
MsgOver == Hdr(0, 1, 0, 0) \o RR(Lit(<<LabelA>>), 16, 0, Rep(MaxBuffer, 0))

\* well-formed messages (RFC 1035), of which every prefix is an input too
ValidMessages ==
    {MsgCompressed, MsgPtrAfterLabels, MsgChain, MsgRoot, MsgRootRec, MsgSections,
     MsgEmpty}

\* the datagrams a peer sends: a datagram cut short on the way, or a whole one
Datagrams ==
    UNION {{[original |-> SubSeq(m, 1, k), truncated |-> k < Len(m)] : k \in 0..Len(m)} :
             m \in ValidMessages}
    \cup {[original |-> m, truncated |-> FALSE] :
            m \in {MsgDangling, MsgDanglingLater, MsgPtrAfterLabelsLong, MsgNotUtf8,
                   MsgFull, MsgOver}}

\* socket.recv_from(&mut buffer) and buffer[..amt]: at most the MaxBuffer bytes of
\* main's buffer are received, the rest of a longer datagram is discarded
recv_from(d) ==
    [original |-> SubSeq(d.original, 1, Min(Len(d.original), MaxBuffer)),
     truncated |-> d.truncated \/ Len(d.original) > MaxBuffer]

\* the buffers main hands to from_buffer: never more than MaxBuffer bytes
Inputs == {recv_from(d) : d \in Datagrams}

(***************************************************************************)
(* The program.                                                            *)
(***************************************************************************)
\* from_buffer's VecDeque: the bytes of the buffer that are not removed yet
response == Drop(original, taken)

Init ==
    /\ overflow_checks \in BOOLEAN
    /\ domain_name = <<>>
    /\ record_type = 0
    /\ query = <<>>
    /\ truncated = FALSE
    /\ original = <<>>
    /\ taken = 0
    /\ idx = 0
    /\ decoded_names = EmptyMap
    /\ header = NoHeader
    /\ questions = <<>>
    /\ answers = <<>>
    /\ authorities = <<>>
    /\ additionals = <<>>
    /\ name_idx = 0
    /\ name = <<>>
    /\ packet = <<>>
    /\ panic = ""
    /\ decodes = 0
    /\ pc = "idle"

decoder_vars == <<truncated, original, taken, idx, decoded_names, header, questions,
                  answers, authorities, additionals, name_idx, name, packet, panic,
                  decodes>>

\* main: let query = build_query(name, type)
BuildQuery ==
    /\ pc = "idle"
    /\ query = <<>>
    /\ \E dn \in Names, rt \in Types, id \in Ids :
          /\ domain_name' = dn
          /\ record_type' = rt
          /\ query' = build_query(dn, rt, id)
    /\ UNCHANGED <<overflow_checks, decoder_vars, pc>>

\* what from_buffer is called with: what recv_from returned after the query was
\* sent, whatever the query was; a peer may also send the query back
Received == Inputs \cup {recv_from([original |-> query, truncated |-> FALSE])}

\* DNSPacket::from_buffer up to its call of DNSHeader::from_buffer
FromBuffer ==
    /\ pc \in {"idle", "done"}
    /\ query # <<>>
    /\ decodes < MaxDecodes
    /\ \E rx \in Received :
          /\ truncated' = rx.truncated
          /\ original' = rx.original
    /\ taken' = 0
    /\ idx' = 0
    /\ decoded_names' = EmptyMap
    /\ header' = NoHeader
    /\ questions' = <<>>
    /\ answers' = <<>>
    /\ authorities' = <<>>
    /\ additionals' = <<>>
    /\ name_idx' = 0
    /\ name' = <<>>
    /\ packet' = <<>>
    /\ panic' = ""
    /\ decodes' = decodes + 1
    /\ pc' = "header"
    /\ UNCHANGED <<overflow_checks, domain_name, record_type, query>>

\* DNSHeader::from_buffer
DecodeHeader ==
    /\ pc = "header"
    /\ LET r == DNSHeader_from_buffer(response, idx, overflow_checks) IN
          /\ taken' = Len(original) - Len(r.buffer)
          /\ idx' = r.idx
          /\ header' = r.header
          /\ panic' = r.panic
          /\ pc' = IF r.panic # "" THEN "panic" ELSE "items"
    /\ UNCHANGED <<overflow_checks, domain_name, record_type, query, truncated, original,
                   decoded_names, questions, answers, authorities, additionals,
                   name_idx, name, packet, decodes>>

\* the decode_name call that opens DNSQuestion::from_buffer and DNSRecord::from_buffer
DecodeName ==
    /\ pc = "items"
    /\ Section(header, questions, answers, authorities, additionals) # "none"
    /\ LET r == decode_name(response, idx, decoded_names, overflow_checks) IN
          /\ taken' = Len(original) - Len(r.buffer)
          /\ idx' = r.idx
          /\ decoded_names' = r.decoded_names
          /\ name' = r.name
          /\ panic' = r.panic
          /\ pc' = IF r.panic # "" THEN "panic" ELSE "fields"
    /\ name_idx' = idx
    /\ UNCHANGED <<overflow_checks, domain_name, record_type, query, truncated, original,
                   header, questions, answers, authorities, additionals, packet, decodes>>

\* the rest of DNSQuestion::from_buffer, and the push onto questions
QuestionFields ==
    /\ pc = "fields"
    /\ Section(header, questions, answers, authorities, additionals) = "questions"
    /\ LET r == question_fields(response, idx, name, overflow_checks) IN
          /\ taken' = Len(original) - Len(r.buffer)
          /\ idx' = r.idx
          /\ questions' = questions \o r.item
          /\ panic' = r.panic
          /\ pc' = IF r.panic # "" THEN "panic" ELSE "items"
    /\ UNCHANGED <<overflow_checks, domain_name, record_type, query, truncated, original,
                   decoded_names, header, answers, authorities, additionals, name_idx,
                   name, packet, decodes>>

\* the rest of DNSRecord::from_buffer, and the push onto the section's vector
RecordFields ==
    /\ pc = "fields"
    /\ LET sec == Section(header, questions, answers, authorities, additionals)
           r == record_fields(response, idx, name, overflow_checks)
       IN
          /\ sec \in {"answers", "authorities", "additionals"}
          /\ taken' = Len(original) - Len(r.buffer)
          /\ idx' = r.idx
          /\ answers' = IF sec = "answers" THEN answers \o r.item ELSE answers
          /\ authorities' = IF sec = "authorities" THEN authorities \o r.item
                            ELSE authorities
          /\ additionals' = IF sec = "additionals" THEN additionals \o r.item
                            ELSE additionals
          /\ panic' = r.panic
          /\ pc' = IF r.panic # "" THEN "panic" ELSE "items"
    /\ UNCHANGED <<overflow_checks, domain_name, record_type, query, truncated, original,
                   decoded_names, header, questions, name_idx, name, packet, decodes>>

\* DNSPacket { header, questions, answers, authorities, additionals }
ReturnPacket ==
    /\ pc = "items"
    /\ Section(header, questions, answers, authorities, additionals) = "none"
    /\ packet' = <<[header |-> header, questions |-> questions, answers |-> answers,
                    authorities |-> authorities, additionals |-> additionals]>>
    /\ pc' = "done"
    /\ UNCHANGED <<overflow_checks, domain_name, record_type, query, truncated, original,
                   taken, idx, decoded_names, header, questions, answers,
                   authorities, additionals, name_idx, name, panic, decodes>>

Next ==
    \/ BuildQuery
    \/ FromBuffer
    \/ DecodeHeader
    \/ DecodeName
    \/ QuestionFields
    \/ RecordFields
    \/ ReturnPacket

Spec == Init /\ [][Next]_vars

(***************************************************************************)
(* Vocabulary of the properties.                                           *)
(***************************************************************************)
\* how a decode ended: the code has two ways to end, a returned DNSPacket and a panic
Outcome ==
    IF pc = "panic" THEN "panic" ELSE IF pc = "done" THEN "message" ELSE "running"

Finished == pc \in {"done", "panic"}

\* from_buffer is about to decode a name
AtName ==
    pc = "items" /\ Section(header, questions, answers, authorities, additionals) # "none"

Items == questions \o answers \o authorities \o additionals

\* number of bytes of s from position i up to the next '.' or the end
RunLen(s, i) ==
    LET stops == {j \in i..(Len(s) + 1) : j = Len(s) + 1 \/ s[j] = Dot} IN
    (CHOOSE j \in stops : \A k \in stops : j <= k) - i

\* the positions where a label of s starts
LabelStarts(s) == {1} \cup {i + 1 : i \in {j \in 1..Len(s) : s[j] = Dot}}

\* every label of s has between lo and hi bytes
LabelsWithin(s, lo, hi) == \A i \in LabelStarts(s) : RunLen(s, i) >= lo /\ RunLen(s, i) <= hi

\* a valid domain name: labels of 1 to 63 bytes, at most 255 bytes encoded
ValidName(s) == LabelsWithin(s, 1, 63) /\ Len(s) + 2 <= 255

\* the wire form of name s, stated position by position: the length of the first
\* label, then s with every '.' replaced by the length of the label after it, then 0
WireName(s) ==
    [i \in 1..(Len(s) + 2) |->
        IF i = 1 THEN RunLen(s, 1)
        ELSE IF i = Len(s) + 2 THEN 0
        ELSE IF s[i - 1] = Dot THEN RunLen(s, i)
        ELSE s[i - 1]]

\* the literal labels that start at offset o of buf, read up to the 0 byte
RECURSIVE LiteralLabels(_, _)
LiteralLabels(buf, o) ==
    IF o + 1 > Len(buf) \/ buf[o + 1] = 0 THEN <<>>
    ELSE <<SubSeq(buf, o + 2, o + 1 + buf[o + 1])>> \o LiteralLabels(buf, o + 1 + buf[o + 1])

\* labels joined by dots
RECURSIVE Dotted(_)
Dotted(ls) ==
    IF ls = <<>> THEN <<>>
    ELSE IF Len(ls) = 1 THEN ls[1]
    ELSE ls[1] \o <<Dot>> \o Dotted(Tail(ls))

(***************************************************************************)
(* Properties.                                                             *)
(***************************************************************************)
\* C1: round trip.  Decoding the bytes build_query returned for a valid name
\* (labels of 1 to 63 bytes, at most 255 bytes encoded) and any type returns a
\* message with exactly one question, whose name is the original name, byte for
\* byte, and whose type_ is the original type.
C1_RoundTrip ==
    (Finished /\ query # <<>> /\ original = query /\ ValidName(domain_name))
    => /\ pc = "done"
       /\ Len(packet) = 1
       /\ Len(packet[1].questions) = 1
       /\ packet[1].questions[1].name = domain_name
       /\ packet[1].questions[1].type_ = record_type

\* a two-label name with a 63-byte label went through build_query and from_buffer
C1_Witness ==
    /\ pc = "done"
    /\ query # <<>>
    /\ original = query
    /\ ValidName(domain_name)
    /\ Cardinality(LabelStarts(domain_name)) >= 2
    /\ Len(domain_name) >= 64
    /\ record_type = 65535
    /\ packet[1].questions[1].name = domain_name

\* C6: the bytes of a query.  For a name whose labels have at most 63 bytes,
\* build_query returns 12 + (encoded name length) + 4 bytes: the id, flags 0x0100,
\* qdcount 1, three zero counts, the uncompressed name (a length byte and the
\* bytes of each label, then 0), the type and class 1, all big-endian; the
\* question of "www.example.com" with type 1 is the spec's example.
C6_QueryBytes ==
    (query # <<>> /\ LabelsWithin(domain_name, 0, 63))
    => /\ Len(query) = 12 + (Len(domain_name) + 2) + 4
       /\ \A i \in 1..Len(query) : query[i] \in 0..255
       /\ SubSeq(query, 3, 12) = <<1, 0, 0, 1, 0, 0, 0, 0, 0, 0>>
       /\ SubSeq(query, 13, Len(domain_name) + 14) = WireName(domain_name)
       /\ SubSeq(query, Len(query) - 3, Len(query))
             = <<record_type \div 256, record_type % 256, 0, 1>>
       /\ (domain_name = WwwExampleCom /\ record_type = 1)
             => Drop(query, 12) = <<3, 119, 119, 119, 7, 101, 120, 97, 109, 112, 108, 101,
                                    3, 99, 111, 109, 0, 0, 1, 0, 1>>

\* build_query("www.example.com", 1) has returned
C6_Witness ==
    /\ query # <<>>
    /\ domain_name = WwwExampleCom
    /\ record_type = 1
    /\ Len(query) = 33

\* the first question's name is made of literal labels (it starts at offset 12)
FirstNameLiteral ==
    Len(questions) >= 1 /\ Len(original) >= 13 /\ original[13] \in 1..63

\* the item decoded last: its name starts at name_idx
LastItem == Items[Len(Items)]

\* the name at name_idx is the two-byte pointer to offset 12
LastNamePointsTo12 ==
    /\ Items # <<>>
    /\ name_idx + 2 <= Len(original)
    /\ original[name_idx + 1] = 192
    /\ original[name_idx + 2] = 12

\* the fields after a pointer-encoded name are the bytes that follow its two bytes
C5_Fields ==
    (pc \in {"items", "done"} /\ FirstNameLiteral /\ LastNamePointsTo12)
    => /\ LastItem.name = questions[1].name
       /\ name_idx + 6 <= Len(original)
       /\ LastItem.type_ = original[name_idx + 3] * 256 + original[name_idx + 4]
       /\ LastItem.class = original[name_idx + 5] * 256 + original[name_idx + 6]

\* decoding a pointer to the first, literal, name returns that name and moves the
\* cursor by 2
C5_Step ==
    (AtName /\ FirstNameLiteral /\ Len(response) >= 2 /\ response[1] = 192
        /\ response[2] = 12)
    => /\ pc' = "fields"
       /\ idx' = idx + 2
       /\ response' = Drop(response, 2)
       /\ name' = questions[1].name
       /\ name' = Dotted(LiteralLabels(original, 12))

\* C5: compression.  When the first name is made of literal labels at offset 12 and
\* a later name is the two-byte pointer to 12, both names decode to the same
\* string, the pointer moves the cursor by exactly 2 bytes, and the fields after
\* the second name are read from the bytes that follow the pointer.
C5_Compression == []C5_Fields /\ [][C5_Step]_vars

\* a message with a literal name and a later pointer to it has been decoded
C5_Witness ==
    /\ pc = "done"
    /\ FirstNameLiteral
    /\ LastNamePointsTo12
    /\ Len(Items) >= 2
    /\ Len(questions[1].name) = 3
    /\ LastItem.name = questions[1].name
    /\ idx = Len(original)

\* C2: truncation.  Decoding a proper prefix of a well-formed message ends in the
\* error TruncatedInput: not in a panic, not in a returned message.
C2_Truncation ==
    (Finished /\ truncated)
    => Outcome = "TruncatedInput"

\* a name of a complete message that is a compression pointer to an offset the
\* table has no name for
AtDanglingPointer ==
    /\ AtName
    /\ ~truncated
    /\ Len(response) >= 2
    /\ response[1] >= 192
    /\ (response[1] - 192) * 256 + response[2] \notin DOMAIN decoded_names

\* C3: dangling pointer.  Reading a compression pointer whose offset is not a key
\* of the compression table ends the message decode in the error DanglingPointer,
\* an error value and not a panic, and no message is returned.
C3_DanglingPointer ==
    [][AtDanglingPointer => (Outcome' = "DanglingPointer" /\ packet' = <<>>)]_vars

\* C4: label too long.  Encoding a name with a label of more than 63 bytes fails
\* and emits no bytes, and no length byte that is emitted is above 63.
C4_LabelTooLong ==
    /\ ~LabelsWithin(domain_name, 0, 63) => query = <<>>
    /\ query # <<>> => \A i \in LabelStarts(domain_name) : query[12 + i] <= 63

\* a name of a complete message that has a literal label of L bytes and then a
\* pointer to a decoded name
AtPointerAfterLabel(L) ==
    /\ AtName
    /\ ~truncated
    /\ Len(response) >= L + 3
    /\ response[1] = L
    /\ response[L + 2] >= 192
    /\ (response[L + 2] - 192) * 256 + response[L + 3] \in DOMAIN decoded_names

\* C7: pointer after labels.  A length byte of 0xC0 or more read after a literal
\* label is a compression pointer: the table is looked up, two bytes are consumed
\* and the name ends there with the name the pointer refers to.
C7_PointerAfterLabels ==
    [][\A L \in 1..63 :
          AtPointerAfterLabel(L)
          => /\ pc' = "fields"
             /\ idx' = idx + L + 3
             /\ response' = Drop(response, L + 3)
             /\ name' = SubSeq(response, 2, L + 1) \o <<Dot>>
                        \o decoded_names[(response[L + 2] - 192) * 256 + response[L + 3]]
      ]_vars

\* C8: pointer chains.  After every successful name decode the table maps the
\* name's start offset to the name, so a pointer to an earlier pointer-encoded
\* name decodes to that name.
C8_PointerChains ==
    /\ pc = "fields" => (name_idx \in DOMAIN decoded_names
                         /\ decoded_names[name_idx] = name)
    /\ (Finished /\ original = MsgChain)
          => (pc = "done" /\ Len(answers) = 2 /\ answers[2].name = answers[1].name)

\* C9: root name.  A name (of a complete message) whose first length byte is 0 decodes to the empty name
\* and consumes exactly that byte.
C9_RootName ==
    [][(AtName /\ ~truncated /\ response # <<>> /\ response[1] = 0)
          => /\ pc' = "fields"
             /\ name' = <<>>
             /\ idx' = idx + 1
             /\ response' = Tail(response)
      ]_vars

\* the name decode_name reads when it starts at offset k of the buffer
NameReadAt(k) == decode_name(Drop(original, k), k, EmptyMap, FALSE).name

\* while a decode runs, the cursor is the number of bytes taken from the buffer,
\* and every key of the table is an offset before the cursor at which the name
\* stored under it starts; the table is empty when the decode starts
CursorConsistent ==
    /\ pc \in {"header", "items", "fields", "done"}
          => /\ idx = Len(original) - Len(response)
             /\ \A k \in DOMAIN decoded_names :
                   /\ k < idx
                   /\ k + 1 <= Len(original)
                   /\ decoded_names[k] = NameReadAt(k)
    /\ pc = "header" => (idx = 0 /\ decoded_names = EmptyMap)

\* a step of a decode does not move the cursor back
CursorMonotonic ==
    (pc \in {"header", "items", "fields"} /\ pc' # "panic") => idx' >= idx

\* C10: cursor consistency.  At every step of a message decode the cursor equals
\* the number of bytes removed from the buffer and never decreases; every key of
\* the table is the offset of the name stored under it and is below the cursor;
\* the table is empty at the start of every decode.
C10_CursorConsistency == []CursorConsistent /\ [][CursorMonotonic]_vars

\* a second decode in the same run has consumed a message that fills the receive
\* buffer to its end, with the record's name in the table
C10_Witness ==
    /\ pc = "done"
    /\ decodes = 2
    /\ Len(original) = MaxBuffer
    /\ idx = MaxBuffer
    /\ response = <<>>
    /\ DOMAIN decoded_names = {12}
    /\ decoded_names[12] = LabelA

====
